---- MODULE Spec2Model ----
(***************************************************************************)
(* Model of package bartapi (src/api/api.go): the Client (key, baseURL),   *)
(* its accessors, Pull and Decode.                                         *)
(*                                                                         *)
(* A Go string is modelled as a sequence of one-character strings, and a   *)
(* string field as its two-word header (data, len), which is what the      *)
(* compiled code loads and stores.                                         *)
(***************************************************************************)
EXTENDS Integers, Sequences, FiniteSets, TLC

\* ------------------------------------------------------------------ bounds
MaxPulls == 2
MaxEntries == 2
MaxTokens == 4

\* ----------------------------------------------------------------- strings
RECURSIVE Concat(_)
Concat(ss) == IF ss = <<>> THEN <<>> ELSE Head(ss) \o Concat(Tail(ss))

IsPrefix(p, s) == Len(p) <= Len(s) /\ SubSeq(s, 1, Len(p)) = p

\* index of the first occurrence of one of the characters cs in s, 0 if none
RECURSIVE IndexFrom(_, _, _)
IndexFrom(s, cs, i) ==
    IF i > Len(s) THEN 0
    ELSE IF s[i] \in cs THEN i
    ELSE IndexFrom(s, cs, i + 1)

IndexAny(s, cs) == IndexFrom(s, cs, 1)

\* byte order of the characters the model uses (ASCII order)
AsciiOrder ==
    <<" ", "#", "&", "+", ".", "/", ":", "=", "?", "a", "b", "c", "d", "e", "g",
      "h", "i", "k", "m", "n", "o", "p", "r", "s", "t", "v", "x", "y", "~">>

Rank(c) == CHOOSE i \in 1..Len(AsciiOrder) : AsciiOrder[i] = c

RECURSIVE StrLess(_, _)
StrLess(s, t) ==
    IF t = <<>> THEN FALSE
    ELSE IF s = <<>> THEN TRUE
    ELSE IF Head(s) = Head(t) THEN StrLess(Tail(s), Tail(t))
    ELSE Rank(Head(s)) < Rank(Head(t))

\* ------------------------------------------------------- program constants
URL ==
    <<"h","t","t","p",":","/","/","a","p","i",".","b","a","r","t",".",
      "g","o","v","/","a","p","i","/","b","s","a",".","a","s","p","x">>

\* the address of the test server (httptest.NewServer), shortened
SrvURL == <<"h","t","t","p",":","/","/","h">>

\* ------------------------------------------------------------------ inputs
Keys == { <<>>, <<"k">>, <<"k", "+">> }
Cmds == { <<"t">>, <<"t", "&", "n", "=", "x">> }
Names == { <<"n">>, <<"s">>, <<"c", "m", "d">> }
Values == { <<"v">>, <<"a", "=", "b">> }
BaseURLs ==
    { <<>>, SrvURL \o <<"/">>, SrvURL \o <<"/", "?", "x">>,
      SrvURL \o <<"/", "#">> }

\* the inputs of a client that makes several calls
SeqKeys == { <<>>, <<"k">> }
SeqCmds == { <<"t">> }
SeqBaseURLs == { <<>>, SrvURL \o <<"/">> }
SeqQueries == { q \in [{<<"n">>} -> {<<"v">>}] : TRUE }

\* map[string]string values with at most MaxEntries entries
Queries ==
    UNION { [D -> Values] : D \in { X \in SUBSET Names : Cardinality(X) <= MaxEntries } }

EmptyMap == CHOOSE f \in [{} -> Values] : TRUE

\* error values of the HTTP transport and of the body read; "nil" is no error
TransportErrs == { "dial", "dns" }
ReadErrs == { "reset", "unexpectedEOF" }
Statuses == { 200, 404, 500 }

VARIABLES
    key, baseURL,            \* the Client's fields; baseURL is a string header
    newKey, lastSet,         \* the argument of New and of the last SetBaseURL
    last, retStr,            \* the last completed call and an accessor's result
    pc,                      \* position of the Pull in flight, "idle" if none
    cmd, query, queryNil,    \* Pull's arguments
    hdr,                     \* the words of c.baseURL that Pull has loaded
    params, rest, order,     \* Pull's buffer, the entries still to range over
    resp, body, err,         \* Pull's locals after http.Get and ReadAll
    opened, closed,          \* response bodies acquired / Close calls, this Pull
    ret,                     \* what the last Pull returned
    pulls, gets,             \* Pull calls started, http.Get calls made
    wpc, wnew, wwords, rwords, old, \* a SetBaseURL racing with Pull
    decIn, decTarget, decPos, decErr, decDone  \* a Decode call

clientVars == <<key, baseURL, newKey, lastSet, last, retStr>>
pullVars ==
    <<pc, cmd, query, queryNil, hdr, params, rest, order, resp, body, err,
      opened, closed, ret, pulls, gets>>
raceVars == <<wpc, wnew, wwords, rwords, old>>
decVars == <<decIn, decTarget, decPos, decErr, decDone>>
vars == <<clientVars, pullVars, raceVars, decVars>>

\* ------------------------------------------------------------ string header
\* A string value is the pair of words (data, len).
Header(s) == [data |-> s, len |-> Len(s)]

\* The string a header denotes; g is the memory that follows the data, read
\* only when len exceeds the data (a header torn by a racing store).
HeaderString(h, g) ==
    IF h.len <= Len(h.data) THEN SubSeq(h.data, 1, h.len)
    ELSE h.data \o SubSeq(g, 1, h.len - Len(h.data))

NoGarbage == <<>>

\* --------------------------------------------------- the echoing test server
\* net/url: the fragment starts at the first '#', the query at the first '?'
RawQuery(target) ==
    LET i == IndexAny(target, {"#"})
        t == IF i = 0 THEN target ELSE SubSeq(target, 1, i - 1)
        j == IndexAny(t, {"?"})
    IN IF j = 0 THEN <<>> ELSE SubSeq(t, j + 1, Len(t))

\* url.QueryUnescape on the model's characters: '+' is a space
QueryUnescape(s) == [i \in 1..Len(s) |-> IF s[i] = "+" THEN " " ELSE s[i]]

\* url.ParseQuery: the <<name, value>> pairs of a raw query, in order
RECURSIVE ParseQuery(_)
ParseQuery(q) ==
    IF q = <<>> THEN <<>>
    ELSE LET i == IndexAny(q, {"&"})
             seg == IF i = 0 THEN q ELSE SubSeq(q, 1, i - 1)
             rem == IF i = 0 THEN <<>> ELSE SubSeq(q, i + 1, Len(q))
             j == IndexAny(seg, {"="})
             k == IF j = 0 THEN seg ELSE SubSeq(seg, 1, j - 1)
             v == IF j = 0 THEN <<>> ELSE SubSeq(seg, j + 1, Len(seg))
         IN IF seg = <<>> THEN ParseQuery(rem)
            ELSE << <<QueryUnescape(k), QueryUnescape(v)>> >> \o ParseQuery(rem)

\* handler.ServeHTTP: params[k] = v[0] for every k of req.Form
EchoParams(target) ==
    LET ps == ParseQuery(RawQuery(target))
        first(n) == CHOOSE i \in 1..Len(ps) :
                        /\ ps[i][1] = n
                        /\ \A j \in 1..(i - 1) : ps[j][1] # n
    IN [n \in { ps[i][1] : i \in 1..Len(ps) } |-> ps[first(n)][2]]

\* json.Marshal of a map[string]string: the entries sorted by name
RECURSIVE MarshalJSON(_)
MarshalJSON(m) ==
    IF DOMAIN m = {} THEN <<>>
    ELSE LET n == CHOOSE x \in DOMAIN m : \A y \in DOMAIN m \ {x} : StrLess(x, y)
         IN << <<n, m[n]>> >> \o MarshalJSON([y \in DOMAIN m \ {n} |-> m[y]])

\* json.Unmarshal into a map: the object a body denotes
UnmarshalJSON(b) ==
    LET lastOf(n) == CHOOSE i \in 1..Len(b) :
                        /\ b[i][1] = n
                        /\ \A j \in (i + 1)..Len(b) : b[j][1] # n
    IN [n \in { b[i][1] : i \in 1..Len(b) } |-> b[lastOf(n)][2]]

\* the request reaches the test server when the target names its address
ReachesServer(target) ==
    /\ IsPrefix(SrvURL, target)
    /\ Len(target) > Len(SrvURL)
    /\ target[Len(SrvURL) + 1] \in {"/", "?", "#"}

\* bodies of servers other than the echo server
RawBodies ==
    { <<>>, << << <<"a">>, <<"b">> >>, << <<"c">>, <<"d">> >> >> }

\* what http.Get can yield for a target when it yields a response
Responses(target) ==
    [status : Statuses, body : RawBodies, echo : {FALSE}]
    \cup (IF ReachesServer(target)
          THEN { [status |-> 200, body |-> MarshalJSON(EchoParams(target)),
                  echo |-> TRUE] }
          ELSE {})

NoResp == [status |-> 0, body |-> <<>>, echo |-> FALSE]
NoRet == [nilBytes |-> TRUE, bytes |-> <<>>, err |-> "none"]

\* ------------------------------------------------------------------- Client
\* New(key)
New(k) ==
    /\ key = k
    /\ baseURL = Header(URL)
    /\ newKey = k
    /\ lastSet = URL
    /\ last = "New"
    /\ retStr = <<>>

PullIdle ==
    /\ pc = "idle"
    /\ cmd = <<>> /\ query = EmptyMap /\ queryNil = TRUE
    /\ hdr = Header(<<>>)
    /\ params = <<>> /\ rest = {} /\ order = <<>>
    /\ resp = NoResp /\ body = <<>> /\ err = "nil"
    /\ opened = 0 /\ closed = 0
    /\ ret = NoRet
    /\ pulls = 0 /\ gets = 0

NoRace ==
    /\ wpc = "none" /\ wnew = <<>> /\ wwords = {} /\ rwords = {} /\ old = <<>>

NoDecode ==
    /\ decIn = <<>> /\ decTarget = "root" /\ decPos = 0
    /\ decErr = "nil" /\ decDone = FALSE

Init ==
    /\ \E k \in SeqKeys : New(k)
    /\ PullIdle
    /\ NoRace
    /\ NoDecode

\* SetBaseURL ignoring an empty argument
SetBaseURL_skipEmpty(u) ==
    /\ pc = "idle"
    /\ baseURL' = IF u = <<>> THEN baseURL ELSE Header(u)
    /\ lastSet' = u
    /\ last' = "SetBaseURL"
    /\ UNCHANGED <<key, newKey, retStr, pullVars, raceVars, decVars>>

\* c.SetBaseURL(u)
SetBaseURL(u) ==
    /\ pc = "idle"
    /\ baseURL' = Header(u)
    /\ lastSet' = u
    /\ last' = "SetBaseURL"
    /\ UNCHANGED <<key, newKey, retStr, pullVars, raceVars, decVars>>

\* c.BaseURL()
BaseURL ==
    /\ pc = "idle"
    /\ retStr' = HeaderString(baseURL, NoGarbage)
    /\ last' = "BaseURL"
    /\ UNCHANGED <<key, baseURL, newKey, lastSet, pullVars, raceVars, decVars>>

\* Key returning the other field
Key_otherField ==
    /\ pc = "idle"
    /\ retStr' = HeaderString(baseURL, NoGarbage)
    /\ last' = "Key"
    /\ UNCHANGED <<key, baseURL, newKey, lastSet, pullVars, raceVars, decVars>>

\* c.Key()
Key ==
    /\ pc = "idle"
    /\ retStr' = key
    /\ last' = "Key"
    /\ UNCHANGED <<key, baseURL, newKey, lastSet, pullVars, raceVars, decVars>>

\* --------------------------------------------------------------------- Pull
\* FormatHead with the command and the key swapped
FormatHead_swapped(b, c, k) ==
    Concat(<<b, <<"?", "c", "m", "d", "=">>, k, <<"&", "k", "e", "y", "=">>, c>>)

\* fmt.Sprintf("%v?cmd=%v&key=%v", c.baseURL, cmd, c.key)
FormatHead(b, c, k) ==
    Concat(<<b, <<"?", "c", "m", "d", "=">>, c, <<"&", "k", "e", "y", "=">>, k>>)

\* percent-encoding of '=' and '&'
RECURSIVE Escape(_)
Escape(s) ==
    IF s = <<>> THEN <<>>
    ELSE (IF Head(s) = "=" THEN <<"%", "3", "D">>
          ELSE IF Head(s) = "&" THEN <<"%", "2", "6">>
          ELSE <<Head(s)>>) \o Escape(Tail(s))

\* FormatParam with the name and value escaped
FormatParam_escaped(k, v) == Concat(<<<<"&">>, Escape(k), <<"=">>, Escape(v)>>)

\* FormatParam without the separating '&'
FormatParam_noAmp(k, v) == Concat(<<k, <<"=">>, v>>)

\* fmt.Sprintf("&%v=%v", k, v)
FormatParam(k, v) == Concat(<<<<"&">>, k, <<"=">>, v>>)

\* entry of Pull up to the range loop; the two words of c.baseURL are
\* loaded together (no other goroutine runs)
PullStart(c, q, isNil) ==
    /\ pc = "idle"
    /\ wpc = "none"
    /\ pulls < MaxPulls
    /\ pulls' = pulls + 1
    /\ cmd' = c /\ query' = q /\ queryNil' = isNil
    /\ hdr' = baseURL
    /\ params' = FormatHead(HeaderString(baseURL, NoGarbage), c, key)
    /\ rest' = DOMAIN q
    /\ order' = <<>>
    /\ resp' = NoResp /\ body' = <<>> /\ err' = "nil"
    /\ opened' = 0 /\ closed' = 0
    /\ ret' = NoRet
    /\ pc' = "range"
    /\ UNCHANGED <<clientVars, gets, raceVars, decVars>>

\* one iteration of "for k, v := range query", in the map's own order
PullRange ==
    /\ pc = "range"
    /\ \E k \in rest :
          /\ params' = params \o FormatParam(k, query[k])
          /\ rest' = rest \ {k}
          /\ order' = Append(order, k)
    /\ UNCHANGED <<clientVars, pc, cmd, query, queryNil, hdr, resp, body, err,
                   opened, closed, ret, pulls, gets, raceVars, decVars>>

\* PullGetFail trying the request a second time before giving up
PullGetFail_retry ==
    /\ pc = "range" /\ rest = {}
    /\ \E e \in TransportErrs :
          /\ err' = e
          /\ ret' = [nilBytes |-> TRUE, bytes |-> <<>>, err |-> e]
          /\ gets' = gets + 2
    /\ pc' = "idle"
    /\ last' = "Pull"
    /\ UNCHANGED <<key, baseURL, newKey, lastSet, retStr, cmd, query, queryNil,
                   hdr, params, rest, order, resp, body, opened, closed, pulls,
                   raceVars, decVars>>

\* resp, err := http.Get(params.String()) failing: return nil, err
PullGetFail ==
    /\ pc = "range" /\ rest = {}
    /\ \E e \in TransportErrs :
          /\ err' = e
          /\ ret' = [nilBytes |-> TRUE, bytes |-> <<>>, err |-> e]
          /\ gets' = gets + 1
    /\ pc' = "idle"
    /\ last' = "Pull"
    /\ UNCHANGED <<key, baseURL, newKey, lastSet, retStr, cmd, query, queryNil,
                   hdr, params, rest, order, resp, body, opened, closed, pulls,
                   raceVars, decVars>>

\* resp, err := http.Get(params.String()) yielding a response
PullGetOk ==
    /\ pc = "range" /\ rest = {}
    /\ \E r \in Responses(params) : resp' = r
    /\ err' = "nil"
    /\ gets' = gets + 1
    /\ opened' = opened + 1
    /\ pc' = "read"
    /\ UNCHANGED <<clientVars, cmd, query, queryNil, hdr, params, rest, order,
                   body, closed, ret, pulls, raceVars, decVars>>

\* body, err := ioutil.ReadAll(resp.Body): all of it, or a part and an error
PullRead ==
    /\ pc = "read"
    /\ \/ body' = resp.body /\ err' = "nil"
       \/ \E n \in 0..Len(resp.body), e \in ReadErrs :
             body' = SubSeq(resp.body, 1, n) /\ err' = e
    /\ pc' = "return"
    /\ UNCHANGED <<clientVars, cmd, query, queryNil, hdr, params, rest, order,
                   resp, opened, closed, ret, pulls, gets, raceVars, decVars>>

\* Result turning a 4xx or 5xx status into an error
Result_checksStatus(r, b, e) ==
    IF e # "nil" THEN [nilBytes |-> TRUE, bytes |-> <<>>, err |-> e]
    ELSE IF r.status >= 400 THEN [nilBytes |-> TRUE, bytes |-> <<>>, err |-> "status"]
    ELSE [nilBytes |-> FALSE, bytes |-> b, err |-> "nil"]

\* Result handing back what was read together with the error
Result_partial(r, b, e) == [nilBytes |-> FALSE, bytes |-> b, err |-> e]

\* the return statements after ReadAll
Result(r, b, e) ==
    IF e # "nil" THEN [nilBytes |-> TRUE, bytes |-> <<>>, err |-> e]
    ELSE [nilBytes |-> FALSE, bytes |-> b, err |-> "nil"]

\* PullReturn closing the body on the success path only
PullReturn_leak ==
    /\ pc = "return"
    /\ ret' = Result(resp, body, err)
    /\ closed' = closed + (IF err # "nil" THEN 0 ELSE 1)
    /\ pc' = "idle"
    /\ last' = "Pull"
    /\ UNCHANGED <<key, baseURL, newKey, lastSet, retStr, cmd, query, queryNil,
                   hdr, params, rest, order, resp, body, err, opened, pulls,
                   gets, raceVars, decVars>>

\* Pull returns after ReadAll; the deferred resp.Body.Close() runs
PullReturn ==
    /\ pc = "return"
    /\ ret' = Result(resp, body, err)
    /\ closed' = closed + 1
    /\ pc' = "idle"
    /\ last' = "Pull"
    /\ UNCHANGED <<key, baseURL, newKey, lastSet, retStr, cmd, query, queryNil,
                   hdr, params, rest, order, resp, body, err, opened, pulls,
                   gets, raceVars, decVars>>

\* a client used from one goroutine, any calls in any order
Next ==
    \/ \E u \in SeqBaseURLs : SetBaseURL(u)
    \/ BaseURL
    \/ Key
    \/ \E c \in SeqCmds, q \in SeqQueries : PullStart(c, q, FALSE)
    \/ \E c \in SeqCmds : PullStart(c, EmptyMap, TRUE)
    \/ PullRange
    \/ PullGetFail
    \/ PullGetOk
    \/ PullRead
    \/ PullReturn

Spec == Init /\ [][Next]_vars

\* one Pull on a client in any state, with any arguments
InitPull ==
    /\ \E k \in Keys, b \in (BaseURLs \cup {URL}) :
          /\ key = k /\ newKey = k
          /\ baseURL = Header(b) /\ lastSet = b
          /\ last = IF b = URL THEN "New" ELSE "SetBaseURL"
          /\ retStr = <<>>
    /\ PullIdle
    /\ NoRace
    /\ NoDecode

NextPull ==
    \/ \E c \in Cmds, q \in Queries : pulls = 0 /\ PullStart(c, q, FALSE)
    \/ \E c \in Cmds : pulls = 0 /\ PullStart(c, EmptyMap, TRUE)
    \/ PullRange
    \/ PullGetFail
    \/ PullGetOk
    \/ PullRead
    \/ PullReturn

SpecPull == InitPull /\ [][NextPull]_vars

\* ------------------------------------------- SetBaseURL racing with a Pull
\* Client has no lock: a second goroutine's "c.baseURL = u" stores the two
\* words of the header one at a time, and Pull's read of c.baseURL loads them
\* one at a time, in an order the compiler chooses.
Words == {"data", "len"}

RaceURLs ==
    { SrvURL, SrvURL \o <<"/">>, <<"h", "t", "t", "p", ":", "/", "/", "g", "/", "a">> }

\* what the memory after a string's data may hold
GarbageChars == {"x", "/"}
Garbage(n) == [1..n -> GarbageChars]

InitRace ==
    /\ \E k \in SeqKeys, b \in RaceURLs :
          /\ key = k /\ newKey = k
          /\ baseURL = Header(b) /\ lastSet = b /\ old = b
          /\ last = "SetBaseURL"
          /\ retStr = <<>>
    /\ PullIdle
    /\ wpc = "none" /\ wnew = <<>> /\ wwords = {} /\ rwords = {}
    /\ NoDecode

\* the second goroutine calls c.SetBaseURL(u)
RaceSetBegin(u) ==
    /\ wpc = "none"
    /\ wpc' = "store"
    /\ wnew' = u
    /\ UNCHANGED <<clientVars, pullVars, wwords, rwords, old, decVars>>

\* RaceStore leaving the length word as it was
RaceStore_keepLen(w) ==
    /\ wpc = "store"
    /\ w \notin wwords
    /\ baseURL' = IF w = "data" THEN [baseURL EXCEPT !.data = wnew] ELSE baseURL
    /\ wwords' = wwords \cup {w}
    /\ IF wwords' = Words
       THEN wpc' = "done" /\ lastSet' = wnew
       ELSE UNCHANGED <<wpc, lastSet>>
    /\ UNCHANGED <<key, newKey, last, retStr, pullVars, wnew, rwords, old, decVars>>

\* one word of "c.baseURL = u" is stored
RaceStore(w) ==
    /\ wpc = "store"
    /\ w \notin wwords
    /\ baseURL' = [baseURL EXCEPT ![w] = Header(wnew)[w]]
    /\ wwords' = wwords \cup {w}
    /\ IF wwords' = Words
       THEN wpc' = "done" /\ lastSet' = wnew
       ELSE UNCHANGED <<wpc, lastSet>>
    /\ UNCHANGED <<key, newKey, last, retStr, pullVars, wnew, rwords, old, decVars>>

\* the first goroutine enters Pull
RacePullBegin(c, q, isNil) ==
    /\ pc = "idle"
    /\ pulls = 0
    /\ pulls' = pulls + 1
    /\ cmd' = c /\ query' = q /\ queryNil' = isNil
    /\ rwords' = {}
    /\ pc' = "load"
    /\ UNCHANGED <<clientVars, hdr, params, rest, order, resp, body, err,
                   opened, closed, ret, gets, wpc, wnew, wwords, old, decVars>>

\* Pull loads one word of c.baseURL
RaceLoad(w) ==
    /\ pc = "load"
    /\ w \notin rwords
    /\ hdr' = [hdr EXCEPT ![w] = baseURL[w]]
    /\ rwords' = rwords \cup {w}
    /\ UNCHANGED <<clientVars, pc, cmd, query, queryNil, params, rest, order,
                   resp, body, err, opened, closed, ret, pulls, gets,
                   wpc, wnew, wwords, old, decVars>>

\* the Sprintf of Pull on the header it loaded; a length beyond the data
\* reads whatever follows the data
RaceFormat ==
    /\ pc = "load"
    /\ rwords = Words
    /\ \E g \in Garbage(IF hdr.len > Len(hdr.data) THEN hdr.len - Len(hdr.data) ELSE 0) :
          params' = FormatHead(HeaderString(hdr, g), cmd, key)
    /\ rest' = DOMAIN query
    /\ pc' = "range"
    /\ UNCHANGED <<clientVars, cmd, query, queryNil, hdr, order, resp, body, err,
                   opened, closed, ret, pulls, gets, raceVars, decVars>>

\* ... or faults, when the memory after the data is not mapped
RaceFault ==
    /\ pc = "load"
    /\ rwords = Words
    /\ hdr.len > Len(hdr.data)
    /\ pc' = "fault"
    /\ UNCHANGED <<clientVars, cmd, query, queryNil, hdr, params, rest, order,
                   resp, body, err, opened, closed, ret, pulls, gets,
                   raceVars, decVars>>

\* BaseURL() once both calls have finished
RaceBaseURL ==
    /\ wpc = "done"
    /\ pulls > 0
    /\ BaseURL

NextRace ==
    \/ \E u \in RaceURLs : RaceSetBegin(u)
    \/ \E w \in Words : RaceStore(w)
    \/ \E c \in SeqCmds, q \in SeqQueries : RacePullBegin(c, q, FALSE)
    \/ \E c \in SeqCmds : RacePullBegin(c, EmptyMap, TRUE)
    \/ \E w \in Words : RaceLoad(w)
    \/ RaceFormat
    \/ RaceFault
    \/ PullRange
    \/ PullGetFail
    \/ PullGetOk
    \/ PullRead
    \/ PullReturn
    \/ RaceBaseURL

SpecRace == InitRace /\ [][NextRace]_vars

\* ------------------------------------------------------------------- Decode
\* The input stream as the tokens xml.Decoder reads from it.
Tokens ==
    [kind : {"start", "end"}, name : {"root", "x"}]
    \cup { [kind |-> "text", name |-> ""],
           [kind |-> "pi", name |-> "latin1"],
           [kind |-> "pi", name |-> "bogus"] }

Streams == UNION { [1..n -> Tokens] : n \in 0..MaxTokens }

\* v: a pointer to a struct with XMLName "root", to a struct without
\* XMLName, or a value that is not a pointer
Targets == {"root", "any", "nonptr"}

\* charset.NewReader knows the declared encoding
KnownCharset(n) == n = "latin1"

\* d.Decode(v): skip to the first start element, read it through its end
\* element; stack holds the names of the open elements
RECURSIVE XMLScan(_, _, _, _)
XMLScan(s, i, stack, target) ==
    IF i > Len(s)
    THEN [err |-> IF stack = <<>> THEN "EOF" ELSE "syntax", pos |-> Len(s)]
    ELSE LET t == s[i] IN
         CASE t.kind = "text" -> XMLScan(s, i + 1, stack, target)
           [] t.kind = "pi" ->
                IF KnownCharset(t.name) THEN XMLScan(s, i + 1, stack, target)
                ELSE [err |-> "charset", pos |-> i]
           [] t.kind = "start" ->
                IF stack = <<>> /\ target = "root" /\ t.name # "root"
                THEN [err |-> "unmarshal", pos |-> i]
                ELSE XMLScan(s, i + 1, <<t.name>> \o stack, target)
           [] t.kind = "end" ->
                IF stack = <<>> \/ Head(stack) # t.name
                THEN [err |-> "syntax", pos |-> i]
                ELSE IF Len(stack) = 1 THEN [err |-> "nil", pos |-> i]
                ELSE XMLScan(s, i + 1, Tail(stack), target)

\* DecodeResult treating the end of the input as success
DecodeResult_eofOk(s, target) ==
    IF target = "nonptr" THEN [err |-> "nonptr", pos |-> 0]
    ELSE LET r == XMLScan(s, 1, <<>>, target)
         IN IF r.err = "EOF" THEN [err |-> "nil", pos |-> r.pos] ELSE r

DecodeResult(s, target) ==
    IF target = "nonptr" THEN [err |-> "nonptr", pos |-> 0]
    ELSE XMLScan(s, 1, <<>>, target)

InitDecode ==
    /\ New(<<>>)
    /\ PullIdle
    /\ NoRace
    /\ decIn \in Streams
    /\ decTarget \in Targets
    /\ decPos = 0 /\ decErr = "nil" /\ decDone = FALSE

\* Decode(r, v)
Decode ==
    /\ ~decDone
    /\ decDone' = TRUE
    /\ decErr' = DecodeResult(decIn, decTarget).err
    /\ decPos' = DecodeResult(decIn, decTarget).pos
    /\ UNCHANGED <<clientVars, pullVars, raceVars, decIn, decTarget>>

NextDecode == Decode

SpecDecode == InitDecode /\ [][NextDecode]_vars

\* ================================================================== claims
Returned == pc = "idle" /\ pulls > 0

\* C1: Key() returns the argument of New, and no operation changes the key.
C1_KeyUnchanged ==
    /\ key = newKey
    /\ last = "Key" => retStr = newKey

\* a Key() call on a client made with the empty key, after a SetBaseURL and
\* a failed Pull
C1_Witness ==
    /\ last = "Key" /\ retStr = newKey /\ newKey = <<>>
    /\ lastSet # URL
    /\ Returned /\ ret.err \in TransportErrs

\* C2: BaseURL() returns the argument of the most recent SetBaseURL, or the
\* default URL if there was none; other calls do not change it.
C2_BaseURLIsLastSet ==
    /\ pc = "idle" => HeaderString(baseURL, NoGarbage) = lastSet
    /\ last = "BaseURL" => retStr = lastSet

\* BaseURL() returning the empty string set before a failed Pull
C2_Witness ==
    /\ last = "BaseURL" /\ retStr = <<>> /\ lastSet = <<>>
    /\ Returned /\ ret.err # "nil"

\* the segments "&k=v" of the names ord, in that order
RECURSIVE Segments(_, _)
Segments(ord, q) ==
    IF ord = <<>> THEN <<>>
    ELSE <<"&">> \o Head(ord) \o <<"=">> \o q[Head(ord)] \o Segments(Tail(ord), q)

ExpectedTarget(ord) ==
    lastSet \o <<"?", "c", "m", "d", "=">> \o cmd \o <<"&", "k", "e", "y", "=">>
        \o newKey \o Segments(ord, query)

IsPermutation(ord, S) ==
    /\ Len(ord) = Cardinality(S)
    /\ { ord[i] : i \in 1..Len(ord) } = S

\* C3: the target passed to the GET request is baseURL ?cmd= command &key=
\* key followed by one &k=v per entry of the mapping, each once, in some
\* order, every character verbatim.
C3_TargetVerbatim ==
    (pulls > 0 /\ rest = {}) =>
        /\ IsPermutation(order, DOMAIN query)
        /\ params = ExpectedTarget(order)

\* a request sent with two entries, a command holding '&' and a value
\* holding '='
C3_Witness ==
    /\ pc = "read"
    /\ Cardinality(DOMAIN query) = 2
    /\ IndexAny(cmd, {"&"}) > 0
    /\ \E n \in DOMAIN query : IndexAny(query[n], {"="}) > 0
    /\ params = ExpectedTarget(order)

\* a request sent with a nil mapping: nothing follows the key
C3_WitnessNil ==
    /\ pc = "read" /\ queryNil
    /\ params = lastSet \o <<"?", "c", "m", "d", "=">> \o cmd
                    \o <<"&", "k", "e", "y", "=">> \o newKey

Maps(obj, n, v) == n \in DOMAIN obj /\ obj[n] = v

EchoedBack ==
    LET obj == UnmarshalJSON(ret.bytes)
    IN /\ Maps(obj, <<"c", "m", "d">>, cmd)
       /\ Maps(obj, <<"k", "e", "y">>, key)
       /\ \A n \in DOMAIN query : Maps(obj, n, query[n])

EchoReturned == Returned /\ last = "Pull" /\ resp.echo /\ ret.err = "nil"

\* C4 as stated: against the echo server the body maps cmd to the command,
\* key to the key and every k of the mapping to its v, for every mapping.
C4_RoundTripAlways == EchoReturned => EchoedBack

Reserved == {" ", "#", "&", "+", "/", ":", "=", "?"}
Plain(str) == \A i \in 1..Len(str) : str[i] \notin Reserved

CleanCall ==
    /\ IndexAny(lastSet, {"?", "#"}) = 0
    /\ Plain(cmd) /\ Plain(key)
    /\ \A n \in DOMAIN query :
          /\ Plain(n) /\ Plain(query[n])
          /\ n \notin {<<"c", "m", "d">>, <<"k", "e", "y">>}

\* C4 amended: the round trip holds when the base URL has no query or
\* fragment, the command, the key and the names and values hold no reserved
\* character, and no name is "cmd" or "key".
C4_RoundTripClean == (EchoReturned /\ CleanCall) => EchoedBack

\* a clean call with two entries echoed back
C4_Witness ==
    /\ EchoReturned /\ CleanCall
    /\ Cardinality(DOMAIN query) = 2
    /\ EchoedBack

\* C5: when a response is obtained and its body read without error, Pull
\* returns the whole body and a nil error, whatever the status code.
C5_StatusIgnored ==
    (Returned /\ opened > 0 /\ err = "nil") =>
        ret = [nilBytes |-> FALSE, bytes |-> resp.body, err |-> "nil"]

\* a 500 response with a body, returned without error
C5_Witness ==
    /\ Returned /\ resp.status = 500 /\ Len(resp.body) > 0
    /\ ret.err = "nil" /\ ret.bytes = resp.body

\* C6: a non-nil error comes with nil bytes and is the error the transport
\* or the read produced; a nil error comes with the fully read body.
C6_ErrorMeansNoBytes ==
    Returned =>
        /\ ret.err # "nil" =>
              /\ ret.nilBytes /\ ret.bytes = <<>>
              /\ ret.err = err
              /\ ret.err \in TransportErrs \cup ReadErrs
        /\ ret.err = "nil" =>
              /\ ~ret.nilBytes
              /\ opened > 0 /\ ret.bytes = resp.body

\* a read that failed after part of the body: nil bytes, the read's error
C6_Witness ==
    /\ Returned /\ Len(body) > 0 /\ Len(body) < Len(resp.body)
    /\ ret.err \in ReadErrs /\ ret.nilBytes

\* C7: each Pull issues exactly one GET request, whatever its outcome.
C7_OneGetPerPull ==
    gets = IF pc = "range" THEN pulls - 1 ELSE pulls

\* two Pulls done, the last one failed in the transport, two requests made
C7_Witness ==
    /\ Returned /\ pulls = 2 /\ gets = 2
    /\ ret.err \in TransportErrs

\* C8: a response body Pull acquired is closed exactly once before Pull
\* returns, on every exit path.
C8_BodyClosedOnce ==
    /\ closed <= opened /\ opened <= 1
    /\ pc = "idle" => closed = opened
    /\ pc \in {"read", "return"} => (opened = 1 /\ closed = 0)

\* Pull returned after a failed read, its body closed
C8_Witness ==
    /\ Returned /\ opened = 1 /\ closed = 1
    /\ ret.err \in ReadErrs

\* starts minus ends among the first n tokens of s
RECURSIVE Depth(_, _)
Depth(s, n) ==
    IF n = 0 THEN 0
    ELSE Depth(s, n - 1)
         + (IF s[n].kind = "start" THEN 1 ELSE IF s[n].kind = "end" THEN -1 ELSE 0)

\* s is one complete element: it opens first, closes last, and every end
\* element bears the name of the start element it closes
WellFormedElement(s) ==
    /\ Len(s) >= 2
    /\ s[1].kind = "start"
    /\ Depth(s, Len(s)) = 0
    /\ \A n \in 1..(Len(s) - 1) : Depth(s, n) > 0
    /\ \A j \in 1..Len(s) :
          s[j].kind = "end" =>
              \E i \in 1..(j - 1) :
                  /\ s[i].kind = "start" /\ s[i].name = s[j].name
                  /\ Depth(s, i - 1) = Depth(s, j)
                  /\ \A m \in i..(j - 1) : Depth(s, m) > Depth(s, j)
    /\ \A j \in 1..Len(s) : s[j].kind = "pi" => KnownCharset(s[j].name)

RootRead ==
    \E i \in 1..Len(decIn) :
        /\ \A m \in 1..(i - 1) : decIn[m].kind \in {"text", "pi"}
        /\ decPos > i /\ decPos <= Len(decIn)
        /\ WellFormedElement(SubSeq(decIn, i, decPos))

\* C9: Decode on an empty stream returns a non-nil error, for every target,
\* and returns nil only when a complete well-formed root element was read.
C9_DecodeEmptyFails ==
    decDone =>
        /\ decIn = <<>> => decErr # "nil"
        /\ decErr = "nil" => RootRead

\* Decode has run on the empty stream and reported the end of input
C9_Witness ==
    /\ decDone /\ decIn = <<>> /\ decTarget = "root"
    /\ decErr = "EOF"

\* Decode has read a root element holding a child and returned nil
C9_WitnessRoot ==
    /\ decDone /\ decErr = "nil" /\ decPos = 4 /\ RootRead

HeadOf(b) ==
    b \o <<"?", "c", "m", "d", "=">> \o cmd \o <<"&", "k", "e", "y", "=">> \o key
        \o Segments(order, query)

TargetBuilt == pc \in {"range", "read", "return"} \/ (pc = "idle" /\ pulls > 0)

\* the values a load of the header can yield while old is replaced by new:
\* one value's data with the other's length
Excess(d, l) == IF l > Len(d) THEN l - Len(d) ELSE 0

Torn(o, n) ==
    { HeaderString([data |-> o, len |-> Len(n)], g) : g \in Garbage(Excess(o, Len(n))) }
    \cup { HeaderString([data |-> n, len |-> Len(o)], g) : g \in Garbage(Excess(n, Len(o))) }

\* C10 as stated: with a SetBaseURL(new) concurrent to Pull, the target is
\* built from the whole old value or the whole new value, the command and
\* key parts are unaffected, and BaseURL() returns new after both finish.
C10_WholeValue ==
    /\ TargetBuilt => \E b \in {old, wnew} : params = HeadOf(b)
    /\ last = "BaseURL" => retStr = wnew

\* C10 amended: the base URL part is the old value, the new value, or a
\* torn value made of the data of one and the length of the other; the
\* rest as stated.
C10_WholeOrTorn ==
    /\ TargetBuilt =>
          \E b \in {old} \cup (IF wpc = "none" THEN {} ELSE {wnew} \cup Torn(old, wnew)) :
              params = HeadOf(b)
    /\ last = "BaseURL" => retStr = wnew

\* both calls finished, the request was built from a torn base URL, and
\* BaseURL() returned new
C10_Witness ==
    /\ last = "BaseURL" /\ retStr = wnew /\ wpc = "done" /\ pc = "idle"
    /\ params # HeadOf(old) /\ params # HeadOf(wnew)
    /\ \E b \in Torn(old, wnew) : params = HeadOf(b)

====
